---- MODULE Spec2Model ----
(***************************************************************************)
(* Model of the claim-token program (solana/programs/claim-token):         *)
(* the BridgeMessage wire codec (message.rs), the UserState entitlement    *)
(* decoder (state/received.rs) and the four instruction handlers of        *)
(* lib.rs: initialize, claim_token, register_emitter, receive_message.     *)
(*                                                                         *)
(* Every instruction is one atomic action: the runtime executes an         *)
(* instruction against its accounts under exclusive write locks and        *)
(* commits the accounts' data only when the handler returns Ok; an Err     *)
(* or a panic aborts the transaction and the accounts keep their old       *)
(* data.  Each handler is a pure operator that returns its result and the  *)
(* account data as the handler left them; the action commits or discards.  *)
(***************************************************************************)
EXTENDS Integers, Sequences, FiniteSets, TLC

(***************************************************************************)
(* Program constants.                                                      *)
(***************************************************************************)
PAYLOAD_ID_ALIVE == 0
PAYLOAD_ID_USER_INFO == 1
BRIDGE_MESSAGE_MAX_LENGTH == 512
MESSAGE_MAX_LENGTH == 1024
\* size of a Pubkey, the 32 of `data[0..32]` and of `32 + 8`
PUBKEY_BYTES == 32
\* size of a u64, the 8 of `32 + 8`
U64_BYTES == 8
\* wormhole::CHAIN_ID_SOLANA
CHAIN_ID_SOLANA == 1

(***************************************************************************)
(* Bounds of the model.                                                    *)
(***************************************************************************)
\* instructions committed in one behaviour
MaxOps == 4
\* instructions aborted (Err or panic) in one behaviour
MaxAborted == 1

\* key bytes: a Pubkey / address is 32 copies of its tag byte
KeyTags == {7, 9}
\* amounts carried by messages; 1 and 256 tell little- from big-endian
Amounts == {0, 250, 256}
\* batch ids (nonces) of posted messages
BatchIds == {3}

Replicate(n, b) == [i \in 1..n |-> b]
Key(b) == Replicate(PUBKEY_BYTES, b)
\* Pubkey::default(), the all-zero address
ZeroKey == Key(0)
Keys == {Key(b) : b \in KeyTags}
\* the UserState accounts (entitlement records); an instruction is handed one
\* of them and its handler reads and writes no other
UserInfoAccts == {1}
\* the keccak hash passed as instruction argument
VaaHash == Replicate(32, 171)

(***************************************************************************)
(* Integer <-> bytes conversions used by the codec and the decoder.        *)
(***************************************************************************)
RECURSIVE from_le_bytes(_)
from_le_bytes(bs) ==
    IF bs = <<>> THEN 0 ELSE Head(bs) + 256 * from_le_bytes(Tail(bs))

RECURSIVE to_le_bytes(_, _)
to_le_bytes(v, n) ==
    IF n = 0 THEN <<>> ELSE <<v % 256>> \o to_le_bytes(v \div 256, n - 1)

\* (len as u16).to_be_bytes()
u16_to_be_bytes(v) == <<(v % 65536) \div 256, v % 256>>
\* u16::read: big-endian
u16_from_be_bytes(bs) == bs[1] * 256 + bs[2]

(***************************************************************************)
(* Wire codec (message.rs).  A BridgeMessage is                            *)
(*   [kind |-> "Alive", program_id |-> 32 bytes]  or                       *)
(*   [kind |-> "UserInfo", message |-> bytes].                             *)
(***************************************************************************)
Alive(program_id) == [kind |-> "Alive", program_id |-> program_id]
UserInfo(message) == [kind |-> "UserInfo", message |-> message]

\* serialize with the length written low byte first
serialize_LengthLE(msg) ==
    IF msg.kind = "Alive"
    THEN [res |-> "Ok", out |-> <<PAYLOAD_ID_ALIVE>> \o msg.program_id]
    ELSE IF Len(msg.message) > BRIDGE_MESSAGE_MAX_LENGTH
         THEN [res |-> "InvalidInput", out |-> <<>>]
         ELSE [res |-> "Ok",
               out |-> <<PAYLOAD_ID_USER_INFO>>
                       \o to_le_bytes(Len(msg.message), 2)
                       \o msg.message]

\* serialize with the tag written before the length is compared to the limit
serialize_TagFirst(msg) ==
    IF msg.kind = "Alive"
    THEN [res |-> "Ok", out |-> <<PAYLOAD_ID_ALIVE>> \o msg.program_id]
    ELSE IF Len(msg.message) > BRIDGE_MESSAGE_MAX_LENGTH
         THEN [res |-> "InvalidInput", out |-> <<PAYLOAD_ID_USER_INFO>>]
         ELSE [res |-> "Ok",
               out |-> <<PAYLOAD_ID_USER_INFO>>
                       \o u16_to_be_bytes(Len(msg.message))
                       \o msg.message]

\* AnchorSerialize::serialize: the result and the bytes written to the writer
serialize(msg) ==
    IF msg.kind = "Alive"
    THEN [res |-> "Ok", out |-> <<PAYLOAD_ID_ALIVE>> \o msg.program_id]
    ELSE IF Len(msg.message) > BRIDGE_MESSAGE_MAX_LENGTH
         THEN [res |-> "InvalidInput", out |-> <<>>]
         ELSE [res |-> "Ok",
               out |-> <<PAYLOAD_ID_USER_INFO>>
                       \o u16_to_be_bytes(Len(msg.message))
                       \o msg.message]

\* deserialize_reader without the comparison of the declared length to the limit
deserialize_reader_NoLimit(buf) ==
    LET fail(r, t) == [res |-> r, text |-> t, msg |-> Alive(ZeroKey), rest |-> <<>>]
        eof == fail("UnexpectedEof", "failed to fill whole buffer")
    IN  IF Len(buf) < 1 THEN eof
        ELSE IF buf[1] = PAYLOAD_ID_ALIVE
        THEN IF Len(buf) < 1 + PUBKEY_BYTES THEN eof
             ELSE [res |-> "Ok", text |-> "",
                   msg |-> Alive(SubSeq(buf, 2, 1 + PUBKEY_BYTES)),
                   rest |-> SubSeq(buf, 2 + PUBKEY_BYTES, Len(buf))]
        ELSE IF buf[1] = PAYLOAD_ID_USER_INFO
        THEN IF Len(buf) < 3 THEN eof
             ELSE LET length == u16_from_be_bytes(SubSeq(buf, 2, 3))
                  IN  IF Len(buf) < 3 + length THEN eof
                      ELSE [res |-> "Ok", text |-> "",
                            msg |-> UserInfo(SubSeq(buf, 4, 3 + length)),
                            rest |-> SubSeq(buf, 4 + length, Len(buf))]
        ELSE fail("InvalidInput", "invalid payload ID")

\* deserialize_reader with the declared length compared to the storage limit
\* of state/received.rs
deserialize_reader_StorageLimit(buf) ==
    LET fail(r, t) == [res |-> r, text |-> t, msg |-> Alive(ZeroKey), rest |-> <<>>]
        eof == fail("UnexpectedEof", "failed to fill whole buffer")
    IN  IF Len(buf) < 1 THEN eof
        ELSE IF buf[1] = PAYLOAD_ID_ALIVE
        THEN IF Len(buf) < 1 + PUBKEY_BYTES THEN eof
             ELSE [res |-> "Ok", text |-> "",
                   msg |-> Alive(SubSeq(buf, 2, 1 + PUBKEY_BYTES)),
                   rest |-> SubSeq(buf, 2 + PUBKEY_BYTES, Len(buf))]
        ELSE IF buf[1] = PAYLOAD_ID_USER_INFO
        THEN IF Len(buf) < 3 THEN eof
             ELSE LET length == u16_from_be_bytes(SubSeq(buf, 2, 3))
                  IN  IF length > MESSAGE_MAX_LENGTH
                      THEN fail("InvalidInput", "message exceeds 512 bytes")
                      ELSE IF Len(buf) < 3 + length THEN eof
                      ELSE [res |-> "Ok", text |-> "",
                            msg |-> UserInfo(SubSeq(buf, 4, 3 + length)),
                            rest |-> SubSeq(buf, 4 + length, Len(buf))]
        ELSE fail("InvalidInput", "invalid payload ID")

\* deserialize_reader with every tag other than 1 read as Alive
deserialize_reader_DefaultAlive(buf) ==
    LET fail(r, t) == [res |-> r, text |-> t, msg |-> Alive(ZeroKey), rest |-> <<>>]
        eof == fail("UnexpectedEof", "failed to fill whole buffer")
    IN  IF Len(buf) < 1 THEN eof
        ELSE IF buf[1] = PAYLOAD_ID_USER_INFO
        THEN IF Len(buf) < 3 THEN eof
             ELSE LET length == u16_from_be_bytes(SubSeq(buf, 2, 3))
                  IN  IF length > BRIDGE_MESSAGE_MAX_LENGTH
                      THEN fail("InvalidInput", "message exceeds 512 bytes")
                      ELSE IF Len(buf) < 3 + length THEN eof
                      ELSE [res |-> "Ok", text |-> "",
                            msg |-> UserInfo(SubSeq(buf, 4, 3 + length)),
                            rest |-> SubSeq(buf, 4 + length, Len(buf))]
        ELSE IF Len(buf) < 1 + PUBKEY_BYTES THEN eof
             ELSE [res |-> "Ok", text |-> "",
                   msg |-> Alive(SubSeq(buf, 2, 1 + PUBKEY_BYTES)),
                   rest |-> SubSeq(buf, 2 + PUBKEY_BYTES, Len(buf))]

\* AnchorDeserialize::deserialize_reader: the result, the message read and
\* the bytes left in the reader
deserialize_reader(buf) ==
    LET fail(r, t) == [res |-> r, text |-> t, msg |-> Alive(ZeroKey), rest |-> <<>>]
        eof == fail("UnexpectedEof", "failed to fill whole buffer")
    IN  IF Len(buf) < 1 THEN eof
        ELSE IF buf[1] = PAYLOAD_ID_ALIVE
        THEN IF Len(buf) < 1 + PUBKEY_BYTES THEN eof
             ELSE [res |-> "Ok", text |-> "",
                   msg |-> Alive(SubSeq(buf, 2, 1 + PUBKEY_BYTES)),
                   rest |-> SubSeq(buf, 2 + PUBKEY_BYTES, Len(buf))]
        ELSE IF buf[1] = PAYLOAD_ID_USER_INFO
        THEN IF Len(buf) < 3 THEN eof
             ELSE LET length == u16_from_be_bytes(SubSeq(buf, 2, 3))
                  IN  IF length > BRIDGE_MESSAGE_MAX_LENGTH
                      THEN fail("InvalidInput", "message exceeds 512 bytes")
                      ELSE IF Len(buf) < 3 + length THEN eof
                      ELSE [res |-> "Ok", text |-> "",
                            msg |-> UserInfo(SubSeq(buf, 4, 3 + length)),
                            rest |-> SubSeq(buf, 4 + length, Len(buf))]
        ELSE fail("InvalidInput", "invalid payload ID")

(***************************************************************************)
(* Entitlement decoder (state/received.rs).                                *)
(***************************************************************************)
\* UserState::decode.  `require!(c, e)` returns Err(e) when c is false; an
\* out-of-range slice or a failed unwrap panics.
UserState_decode(data) ==
    LET none == [user |-> ZeroKey, amount |-> 0]
    IN  IF ~(Len(data) # PUBKEY_BYTES + U64_BYTES)
        THEN [res |-> "InvalidMessage", value |-> none]
        ELSE IF Len(data) < PUBKEY_BYTES
        THEN [res |-> "Panic", value |-> none]
        ELSE IF Len(data) < PUBKEY_BYTES + U64_BYTES
        THEN [res |-> "Panic", value |-> none]
        ELSE [res |-> "Ok",
              value |-> [user |-> SubSeq(data, 1, PUBKEY_BYTES),
                         amount |-> from_le_bytes(
                             SubSeq(data, PUBKEY_BYTES + 1, PUBKEY_BYTES + U64_BYTES))]]

(***************************************************************************)
(* State.                                                                  *)
(***************************************************************************)
VARIABLES
    \* the State account: [exists, owner]
    state,
    \* the UserState accounts: [exists, user, amount] each
    user_info,
    \* the ForeignEmitter account: [chain, address]
    foreign_emitter,
    \* the Received account: [batch_id, wormhole_message_hash, message]
    received,
    \* the last instruction executed: its name, arguments, result and the
    \* cross-program invocations it made
    last,
    \* instructions committed and aborted so far
    nops,
    naborted,
    \* per UserState account: receive_message / claim_token instructions that
    \* returned Ok
    nReceived,
    nClaimed,
    \* per UserState account: the amount the last committed receive_message
    \* stored, the amount it found stored, and the results of the claims
    \* executed since then by the stored recipient, with the owner as authority
    \* and a transfer the token program carries out
    epoch,
    \* the last run of the wire codec on its own: the operation, its input
    \* and what it returned
    codec,
    \* the claim_token instruction in execution, statement by statement: the
    \* next statement, the accounts and local variables of the handler, and
    \* the invocations it has made
    tx

vars == <<state, user_info, foreign_emitter, received, last, nops, naborted,
          nReceived, nClaimed, epoch, codec, tx>>

(***************************************************************************)
(* Instruction handlers (lib.rs).  Each returns res, the accounts as the   *)
(* handler left them when it returned, and the invocations it made.        *)
(***************************************************************************)
\* initialize
initialize(st, owner) ==
    [res |-> "Ok", state |-> [st EXCEPT !.owner = owner]]

(***************************************************************************)
(* Variants of claim_token with one slip each, for checking that the       *)
(* properties below depend on the handler.                                 *)
(***************************************************************************)
ClaimOut(r, u, c) == [res |-> r, user_info |-> u, cpi |-> c]
Transfer(from, to, authority, amount) ==
    [from |-> from, to |-> to, authority |-> authority, amount |-> amount]

\* `user_info.amount = 0` left out
claim_token_NoZero(st, ui, user, owner, cpi_ok) ==
    LET amount == ui.amount
    IN  IF ~(ui.user = user) THEN ClaimOut("InvalidUser", ui, <<>>)
        ELSE IF ~(amount # 0) THEN ClaimOut("InvalidAmount", ui, <<>>)
        ELSE IF ~(st.owner = owner) THEN ClaimOut("InvalidOwner", ui, <<>>)
        ELSE ClaimOut(IF cpi_ok THEN "Ok" ELSE "TransferFailed", ui,
                      <<Transfer(owner, user, owner, amount)>>)

\* the `?` after token::transfer left out: its error is dropped
claim_token_DropTransferError(st, ui, user, owner, cpi_ok) ==
    LET amount == ui.amount
    IN  IF ~(ui.user = user) THEN ClaimOut("InvalidUser", ui, <<>>)
        ELSE IF ~(amount # 0) THEN ClaimOut("InvalidAmount", ui, <<>>)
        ELSE IF ~(st.owner = owner) THEN ClaimOut("InvalidOwner", ui, <<>>)
        ELSE ClaimOut("Ok", [ui EXCEPT !.amount = 0],
                      <<Transfer(owner, user, owner, amount)>>)

\* the InvalidUser check left out
claim_token_NoUserCheck(st, ui, user, owner, cpi_ok) ==
    LET amount == ui.amount
    IN  IF ~(amount # 0) THEN ClaimOut("InvalidAmount", ui, <<>>)
        ELSE IF ~(st.owner = owner) THEN ClaimOut("InvalidOwner", ui, <<>>)
        ELSE ClaimOut(IF cpi_ok THEN "Ok" ELSE "TransferFailed",
                      [ui EXCEPT !.amount = 0],
                      <<Transfer(owner, user, owner, amount)>>)

\* the transfer given user_info.amount, read after the zeroing
claim_token_TransferAfterZero(st, ui, user, owner, cpi_ok) ==
    LET amount == ui.amount
        zeroed == [ui EXCEPT !.amount = 0]
    IN  IF ~(ui.user = user) THEN ClaimOut("InvalidUser", ui, <<>>)
        ELSE IF ~(amount # 0) THEN ClaimOut("InvalidAmount", ui, <<>>)
        ELSE IF ~(st.owner = owner) THEN ClaimOut("InvalidOwner", ui, <<>>)
        ELSE ClaimOut(IF cpi_ok THEN "Ok" ELSE "TransferFailed", zeroed,
                      <<Transfer(owner, user, owner, zeroed.amount)>>)

\* the InvalidAmount check left out
claim_token_NoAmountCheck(st, ui, user, owner, cpi_ok) ==
    LET amount == ui.amount
    IN  IF ~(ui.user = user) THEN ClaimOut("InvalidUser", ui, <<>>)
        ELSE IF ~(st.owner = owner) THEN ClaimOut("InvalidOwner", ui, <<>>)
        ELSE ClaimOut(IF cpi_ok THEN "Ok" ELSE "TransferFailed",
                      [ui EXCEPT !.amount = 0],
                      <<Transfer(owner, user, owner, amount)>>)

\* `user_info.amount += amount` in place of `user_info.amount = 0`
claim_token_Credit(st, ui, user, owner, cpi_ok) ==
    LET amount == ui.amount
    IN  IF ~(ui.user = user) THEN ClaimOut("InvalidUser", ui, <<>>)
        ELSE IF ~(amount # 0) THEN ClaimOut("InvalidAmount", ui, <<>>)
        ELSE IF ~(st.owner = owner) THEN ClaimOut("InvalidOwner", ui, <<>>)
        ELSE ClaimOut(IF cpi_ok THEN "Ok" ELSE "TransferFailed",
                      [ui EXCEPT !.amount = @ + amount],
                      <<Transfer(owner, user, owner, amount)>>)

\* claim_token; cpi_ok: whether the token program carries out the transfer
\* claim_token with the owner compared first, then the amount, then the user
claim_token_OwnerFirst(st, ui, user, owner, cpi_ok) ==
    LET amount == ui.amount
    IN  IF ~(st.owner = owner) THEN ClaimOut("InvalidOwner", ui, <<>>)
        ELSE IF ~(amount # 0) THEN ClaimOut("InvalidAmount", ui, <<>>)
        ELSE IF ~(ui.user = user) THEN ClaimOut("InvalidUser", ui, <<>>)
        ELSE LET zeroed == [ui EXCEPT !.amount = 0]
                 cpi_accounts == Transfer(owner, user, owner, amount)
             IN  IF cpi_ok
                 THEN ClaimOut("Ok", zeroed, <<cpi_accounts>>)
                 ELSE ClaimOut("TransferFailed", zeroed, <<cpi_accounts>>)

claim_token(st, ui, user, owner, cpi_ok) ==
    LET amount == ui.amount
    IN  IF ~(ui.user = user) THEN ClaimOut("InvalidUser", ui, <<>>)
        ELSE IF ~(amount # 0) THEN ClaimOut("InvalidAmount", ui, <<>>)
        ELSE IF ~(st.owner = owner) THEN ClaimOut("InvalidOwner", ui, <<>>)
        ELSE LET zeroed == [ui EXCEPT !.amount = 0]
                 cpi_accounts == Transfer(owner, user, owner, amount)
             IN  IF cpi_ok
                 THEN ClaimOut("Ok", zeroed, <<cpi_accounts>>)
                 ELSE ClaimOut("TransferFailed", zeroed, <<cpi_accounts>>)

\* the `chain != wormhole::CHAIN_ID_SOLANA` test left out
register_emitter_NoLocalCheck(em, chain, address) ==
    IF ~(chain > 0 /\ ~(\A i \in 1..Len(address) : address[i] = 0))
    THEN [res |-> "InvalidForeignEmitter", foreign_emitter |-> em]
    ELSE [res |-> "Ok",
          foreign_emitter |-> [chain |-> chain, address |-> address]]

\* register_emitter
register_emitter(em, chain, address) ==
    IF ~(chain > 0 /\ chain # CHAIN_ID_SOLANA
         /\ ~(\A i \in 1..Len(address) : address[i] = 0))
    THEN [res |-> "InvalidForeignEmitter", foreign_emitter |-> em]
    ELSE [res |-> "Ok",
          foreign_emitter |-> [chain |-> chain, address |-> address]]

\* the else branch of receive_message returning Ok(())
receive_message_ElseOk(posted, vaa_hash, rcv, ui) ==
    IF posted.data.kind = "UserInfo"
    THEN LET message == posted.data.message
             saved == [batch_id |-> posted.batch_id,
                       wormhole_message_hash |-> vaa_hash,
                       message |-> message]
             user_state == UserState_decode(message)
         IN  IF ~(Len(message) <= MESSAGE_MAX_LENGTH)
             THEN [res |-> "InvalidMessage", received |-> rcv, user_info |-> ui]
             ELSE IF user_state.res # "Ok"
             THEN [res |-> "Panic", received |-> saved, user_info |-> ui]
             ELSE [res |-> "Ok", received |-> saved,
                   user_info |-> [ui EXCEPT !.user = user_state.value.user,
                                            !.amount = user_state.value.amount]]
    ELSE [res |-> "Ok", received |-> rcv, user_info |-> ui]

\* the decoded amount added to the stored one
receive_message_Add(posted, vaa_hash, rcv, ui) ==
    IF posted.data.kind = "UserInfo"
    THEN LET message == posted.data.message
             saved == [batch_id |-> posted.batch_id,
                       wormhole_message_hash |-> vaa_hash,
                       message |-> message]
             user_state == UserState_decode(message)
         IN  IF ~(Len(message) <= MESSAGE_MAX_LENGTH)
             THEN [res |-> "InvalidMessage", received |-> rcv, user_info |-> ui]
             ELSE IF user_state.res # "Ok"
             THEN [res |-> "Panic", received |-> saved, user_info |-> ui]
             ELSE [res |-> "Ok", received |-> saved,
                   user_info |-> [ui EXCEPT !.user = user_state.value.user,
                                            !.amount = @ + user_state.value.amount]]
    ELSE [res |-> "InvalidMessage", received |-> rcv, user_info |-> ui]

\* receive_message; posted: the posted message account, [batch_id, data]
receive_message(posted, vaa_hash, rcv, ui) ==
    IF posted.data.kind = "UserInfo"
    THEN LET message == posted.data.message
         IN  IF ~(Len(message) <= MESSAGE_MAX_LENGTH)
             THEN [res |-> "InvalidMessage", received |-> rcv, user_info |-> ui]
             ELSE LET saved == [batch_id |-> posted.batch_id,
                                wormhole_message_hash |-> vaa_hash,
                                message |-> message]
                      user_state == UserState_decode(message)
                  IN  IF user_state.res # "Ok"
                      THEN [res |-> "Panic", received |-> saved, user_info |-> ui]
                      ELSE [res |-> "Ok", received |-> saved,
                            user_info |-> [ui EXCEPT !.user = user_state.value.user,
                                                     !.amount = user_state.value.amount]]
    ELSE [res |-> "InvalidMessage", received |-> rcv, user_info |-> ui]

(***************************************************************************)
(* Inputs.                                                                 *)
(***************************************************************************)
\* recipient(32 bytes) || amount(8 bytes, little-endian)
EntitlementBytes(user, amount) == user \o to_le_bytes(amount, U64_BYTES)

\* bs cut or padded to n bytes
Resize(bs, n) ==
    IF n <= Len(bs) THEN SubSeq(bs, 1, n) ELSE bs \o Replicate(n - Len(bs), 33)

EntitlementLen == PUBKEY_BYTES + U64_BYTES
\* well-formed entitlements, and the same with trailing bytes
Entitlements == {EntitlementBytes(k, a) : k \in Keys, a \in Amounts}
Padded == {Resize(e, EntitlementLen + 1) : e \in Entitlements}
\* one entitlement cut short: empty, inside the recipient, inside the amount
ShortLens == {0, PUBKEY_BYTES - 1, EntitlementLen - 1}
Short == {Resize(EntitlementBytes(Key(7), 250), n) : n \in ShortLens}
\* one entitlement with trailing bytes up to the wire limit
Longest == {Resize(EntitlementBytes(Key(7), 250), BRIDGE_MESSAGE_MAX_LENGTH)}
Payloads == Entitlements \cup Padded \cup Short \cup Longest
Envelopes == {Alive(Key(7))} \cup {UserInfo(p) : p \in Payloads}

\* buffers no serialize produces: an unknown tag, a declared length above the
\* wire limit, a declared length longer than the buffer
Malformed ==
    { <<2>> \o ZeroKey,
      <<PAYLOAD_ID_USER_INFO>> \o u16_to_be_bytes(BRIDGE_MESSAGE_MAX_LENGTH + 1)
          \o Resize(EntitlementBytes(Key(7), 250), BRIDGE_MESSAGE_MAX_LENGTH + 1),
      <<PAYLOAD_ID_USER_INFO>> \o u16_to_be_bytes(EntitlementLen) \o ZeroKey }
\* the payloads of posted messages
WireBuffers == {serialize(e).out : e \in Envelopes} \cup Malformed

\* emitter addresses: all zero, one with a single nonzero byte, one without
\* a zero byte
Addresses == {ZeroKey, <<1>> \o Replicate(PUBKEY_BYTES - 1, 0), Key(7)}
\* chain ids: none, this chain's own, a foreign chain's
Chains == {0, CHAIN_ID_SOLANA, 2}

NoArgs == [none |-> TRUE]
Result(op, res, acct, args, cpi) ==
    [op |-> op, res |-> res, acct |-> acct, args |-> args, cpi |-> cpi]

(***************************************************************************)
(* Initial state: no account of the program exists yet; account data are   *)
(* zero (Default).                                                         *)
(***************************************************************************)
NoState == [exists |-> FALSE, owner |-> ZeroKey]
NoUserInfo == [exists |-> FALSE, user |-> ZeroKey, amount |-> 0]
\* no claim_token in execution
NoTx == [pc |-> "idle", acct |-> 0, user |-> ZeroKey, owner |-> ZeroKey,
         cpi_ok |-> FALSE, amount |-> 0, user_info |-> NoUserInfo,
         cpi |-> <<>>, res |-> ""]

Init ==
    /\ state = NoState
    /\ user_info = [a \in UserInfoAccts |-> NoUserInfo]
    /\ foreign_emitter = [chain |-> 0, address |-> ZeroKey]
    /\ received = [batch_id |-> 0, wormhole_message_hash |-> Replicate(32, 0),
                   message |-> <<>>]
    /\ last = Result("none", "Ok", 0, NoArgs, <<>>)
    /\ nops = 0
    /\ naborted = 0
    /\ nReceived = [a \in UserInfoAccts |-> 0]
    /\ nClaimed = [a \in UserInfoAccts |-> 0]
    /\ epoch = [a \in UserInfoAccts |-> [amount |-> 0, replaced |-> 0, claims |-> <<>>]]
    /\ codec = [op |-> "none"]
    /\ tx = NoTx

(***************************************************************************)
(* Actions: one instruction each.                                          *)
(***************************************************************************)
\* the instruction counts, bounded
Tally(res) ==
    IF res = "Ok"
    THEN nops < MaxOps /\ nops' = nops + 1 /\ UNCHANGED naborted
    ELSE naborted < MaxAborted /\ naborted' = naborted + 1 /\ UNCHANGED nops

\* Initialize without `init`: the State account is written whether or not it
\* exists
Initialize_Overwrite(owner) ==
    /\ nops < MaxOps \/ naborted < MaxAborted
    /\ tx.pc = "idle"
    /\ LET r == initialize([state EXCEPT !.exists = TRUE], owner)
       IN  /\ Tally(r.res)
           /\ last' = Result("initialize", r.res, 0, [owner |-> owner], <<>>)
           /\ state' = IF r.res = "Ok" THEN r.state ELSE state
    /\ UNCHANGED <<user_info, foreign_emitter, received, nReceived, nClaimed, epoch, codec, tx>>

\* Initialize: `init` creates the State account, and fails when it exists
Initialize(owner) ==
    /\ nops < MaxOps \/ naborted < MaxAborted
    /\ tx.pc = "idle"
    /\ LET r == initialize([state EXCEPT !.exists = TRUE], owner)
       IN  IF state.exists
           THEN /\ Tally("AccountAlreadyInUse")
                /\ last' = Result("initialize", "AccountAlreadyInUse", 0,
                                  [owner |-> owner], <<>>)
                /\ UNCHANGED state
           ELSE /\ Tally(r.res)
                /\ last' = Result("initialize", r.res, 0, [owner |-> owner], <<>>)
                /\ state' = IF r.res = "Ok" THEN r.state ELSE state
    /\ UNCHANGED <<user_info, foreign_emitter, received, nReceived, nClaimed, epoch, codec, tx>>

\* ClaimToken: Account<State> and Account<UserState> load only accounts
\* that exist
ClaimToken(a, user, owner, cpi_ok) ==
    /\ nops < MaxOps \/ naborted < MaxAborted
    /\ tx.pc = "idle"
    /\ LET args == [user |-> user, owner |-> owner, cpi_ok |-> cpi_ok]
           r == claim_token(state, user_info[a], user, owner, cpi_ok)
       IN  IF ~(state.exists /\ user_info[a].exists)
           THEN /\ Tally("AccountNotInitialized")
                /\ last' = Result("claim_token", "AccountNotInitialized", a, args, <<>>)
                /\ UNCHANGED <<user_info, nClaimed, epoch>>
           ELSE /\ Tally(r.res)
                /\ last' = Result("claim_token", r.res, a, args, r.cpi)
                /\ IF r.res = "Ok"
                   THEN /\ user_info' = [user_info EXCEPT ![a] = r.user_info]
                        /\ nClaimed' = [nClaimed EXCEPT ![a] = @ + 1]
                   ELSE UNCHANGED <<user_info, nClaimed>>
                /\ epoch' = IF user = user_info[a].user /\ owner = state.owner /\ cpi_ok
                            THEN [epoch EXCEPT ![a].claims = Append(@, r.res)]
                            ELSE epoch
    /\ UNCHANGED <<state, foreign_emitter, received, nReceived, codec, tx>>

RegisterEmitter(chain, address) ==
    /\ nops < MaxOps \/ naborted < MaxAborted
    /\ tx.pc = "idle"
    /\ LET r == register_emitter(foreign_emitter, chain, address)
       IN  /\ Tally(r.res)
           /\ last' = Result("register_emitter", r.res, 0,
                             [chain |-> chain, address |-> address], <<>>)
           /\ foreign_emitter' = IF r.res = "Ok" THEN r.foreign_emitter
                                 ELSE foreign_emitter
    /\ UNCHANGED <<state, user_info, received, nReceived, nClaimed, epoch, codec, tx>>

\* the accounts of receive_message: a UserState account that does not exist
\* yet is created, with zero data, for the handler to write
CreateIfNeeded(ui) == [ui EXCEPT !.exists = TRUE]

\* ReceiveMessage: the posted message account loads only when its payload
\* deserializes to a BridgeMessage
ReceiveMessage(a, batch_id, buf) ==
    /\ nops < MaxOps \/ naborted < MaxAborted
    /\ tx.pc = "idle"
    /\ LET args == [batch_id |-> batch_id, buf |-> buf]
           rd == deserialize_reader(buf)
           r == receive_message([batch_id |-> batch_id, data |-> rd.msg],
                                VaaHash, received, CreateIfNeeded(user_info[a]))
       IN  IF rd.res # "Ok"
           THEN /\ Tally("AccountDidNotDeserialize")
                /\ last' = Result("receive_message", "AccountDidNotDeserialize", a,
                                  args, <<>>)
                /\ UNCHANGED <<received, user_info, nReceived, epoch>>
           ELSE /\ Tally(r.res)
                /\ last' = Result("receive_message", r.res, a, args, <<>>)
                /\ IF r.res = "Ok"
                   THEN /\ received' = r.received
                        /\ user_info' = [user_info EXCEPT ![a] = r.user_info]
                        /\ nReceived' = [nReceived EXCEPT ![a] = @ + 1]
                        /\ epoch' = [epoch EXCEPT ![a] =
                                        [amount |-> r.user_info.amount,
                                         replaced |-> user_info[a].amount,
                                         claims |-> <<>>]]
                   ELSE UNCHANGED <<received, user_info, nReceived, epoch>>
    /\ UNCHANGED <<state, foreign_emitter, nClaimed, codec, tx>>

Next ==
    \/ \E owner \in Keys : Initialize(owner)
    \/ \E a \in UserInfoAccts, user \in Keys, owner \in Keys, cpi_ok \in BOOLEAN :
          ClaimToken(a, user, owner, cpi_ok)
    \/ \E chain \in Chains, address \in Addresses : RegisterEmitter(chain, address)
    \/ \E a \in UserInfoAccts, batch_id \in BatchIds, buf \in WireBuffers :
          ReceiveMessage(a, batch_id, buf)

Spec == Init /\ [][Next]_vars

(***************************************************************************)
(* claim_token statement by statement.  t is the handler in execution:     *)
(* pc the next statement, user_info the handler's UserState, amount its    *)
(* local variable, cpi the invocations made, res the value returned.       *)
(***************************************************************************)
\* claim_token_step with the transfer invoked before the amount is zeroed
claim_token_step_TransferFirst(t, st) ==
    LET return(r) == [t EXCEPT !.pc = "return", !.res = r]
    IN  CASE t.pc = "amount" ->
                [t EXCEPT !.amount = t.user_info.amount, !.pc = "require_user"]
          [] t.pc = "require_user" ->
                IF ~(t.user_info.user = t.user) THEN return("InvalidUser")
                ELSE [t EXCEPT !.pc = "require_amount"]
          [] t.pc = "require_amount" ->
                IF ~(t.amount # 0) THEN return("InvalidAmount")
                ELSE [t EXCEPT !.pc = "require_owner"]
          [] t.pc = "require_owner" ->
                IF ~(st.owner = t.owner) THEN return("InvalidOwner")
                ELSE [t EXCEPT !.pc = "transfer"]
          [] t.pc = "transfer" ->
                LET cpi_accounts == Transfer(t.owner, t.user, t.owner, t.amount)
                    invoked == [t EXCEPT !.cpi = Append(@, cpi_accounts)]
                IN  IF t.cpi_ok THEN [invoked EXCEPT !.pc = "zero"]
                    ELSE [invoked EXCEPT !.pc = "return", !.res = "TransferFailed"]
          [] t.pc = "zero" ->
                [t EXCEPT !.user_info.amount = 0, !.pc = "ok"]
          [] t.pc = "ok" -> return("Ok")
          [] OTHER -> t

claim_token_step(t, st) ==
    LET return(r) == [t EXCEPT !.pc = "return", !.res = r]
    IN  CASE t.pc = "amount" ->
                [t EXCEPT !.amount = t.user_info.amount, !.pc = "require_user"]
          [] t.pc = "require_user" ->
                IF ~(t.user_info.user = t.user) THEN return("InvalidUser")
                ELSE [t EXCEPT !.pc = "require_amount"]
          [] t.pc = "require_amount" ->
                IF ~(t.amount # 0) THEN return("InvalidAmount")
                ELSE [t EXCEPT !.pc = "require_owner"]
          [] t.pc = "require_owner" ->
                IF ~(st.owner = t.owner) THEN return("InvalidOwner")
                ELSE [t EXCEPT !.pc = "zero"]
          [] t.pc = "zero" ->
                [t EXCEPT !.user_info.amount = 0, !.pc = "transfer"]
          [] t.pc = "transfer" ->
                LET cpi_accounts == Transfer(t.owner, t.user, t.owner, t.amount)
                    invoked == [t EXCEPT !.cpi = Append(@, cpi_accounts)]
                IN  IF t.cpi_ok THEN [invoked EXCEPT !.pc = "ok"]
                    ELSE [invoked EXCEPT !.pc = "return", !.res = "TransferFailed"]
          [] t.pc = "ok" -> return("Ok")
          [] OTHER -> t

\* the instruction starts: the accounts are loaded for the handler
BeginClaim(a, user, owner, cpi_ok) ==
    /\ tx.pc = "idle"
    /\ state.exists /\ user_info[a].exists
    /\ IF claim_token(state, user_info[a], user, owner, cpi_ok).res = "Ok"
       THEN nops < MaxOps ELSE naborted < MaxAborted
    /\ tx' = [pc |-> "amount", acct |-> a, user |-> user, owner |-> owner,
              cpi_ok |-> cpi_ok, amount |-> 0, user_info |-> user_info[a],
              cpi |-> <<>>, res |-> ""]
    /\ UNCHANGED <<state, user_info, foreign_emitter, received, last, nops,
                   naborted, nReceived, nClaimed, epoch, codec>>

\* the handler executes its next statement
ClaimStep ==
    /\ tx.pc \notin {"idle", "return"}
    /\ tx' = claim_token_step(tx, state)
    /\ UNCHANGED <<state, user_info, foreign_emitter, received, last, nops,
                   naborted, nReceived, nClaimed, epoch, codec>>

\* the handler has returned: its UserState is written back when it
\* returned Ok, and dropped otherwise
EndClaim ==
    /\ tx.pc = "return"
    /\ Tally(tx.res)
    /\ last' = Result("claim_token", tx.res, tx.acct,
                      [user |-> tx.user, owner |-> tx.owner, cpi_ok |-> tx.cpi_ok],
                      tx.cpi)
    /\ IF tx.res = "Ok"
       THEN /\ user_info' = [user_info EXCEPT ![tx.acct] = tx.user_info]
            /\ nClaimed' = [nClaimed EXCEPT ![tx.acct] = @ + 1]
       ELSE UNCHANGED <<user_info, nClaimed>>
    /\ epoch' = IF /\ tx.user = user_info[tx.acct].user
                   /\ tx.owner = state.owner
                   /\ tx.cpi_ok
                THEN [epoch EXCEPT ![tx.acct].claims = Append(@, tx.res)]
                ELSE epoch
    /\ tx' = NoTx
    /\ UNCHANGED <<state, foreign_emitter, received, nReceived, codec>>

NextSteps ==
    \/ \E owner \in Keys : Initialize(owner)
    \/ \E a \in UserInfoAccts, batch_id \in BatchIds, buf \in WireBuffers :
          ReceiveMessage(a, batch_id, buf)
    \/ \E a \in UserInfoAccts, user \in Keys, owner \in Keys, cpi_ok \in BOOLEAN :
          BeginClaim(a, user, owner, cpi_ok)
    \/ ClaimStep
    \/ EndClaim

SpecSteps == Init /\ [][NextSteps]_vars

(***************************************************************************)
(* The wire codec on its own: serialize and deserialize applied to         *)
(* messages and buffers around the limits of the format.                   *)
(***************************************************************************)
\* payload lengths tried beyond a limit: limit - CodecSlack .. limit + CodecSlack
CodecSlack == 2
\* the largest value of the u16 length field
U16_MAX == 65535

\* n bytes that differ from place to place: byte i is i * k mod 256
Pattern(n, k) == [i \in 1..n |-> (i * k) % 256]
CodecLens ==
    (0..CodecSlack)
    \cup ((256 - CodecSlack)..(256 + CodecSlack))
    \cup ((BRIDGE_MESSAGE_MAX_LENGTH - CodecSlack)..(BRIDGE_MESSAGE_MAX_LENGTH + CodecSlack))
CodecPayloads == {Pattern(n, k) : n \in CodecLens, k \in {1, 7}}
CodecEnvelopes ==
    {Alive(k) : k \in Keys \cup {ZeroKey, Pattern(PUBKEY_BYTES, 1)}}
    \cup {UserInfo(p) : p \in CodecPayloads}
\* a UserInfo buffer written by hand: the tag, a declared length, the bytes
Handmade(declared, bytes) ==
    <<PAYLOAD_ID_USER_INFO>> \o u16_to_be_bytes(declared) \o bytes
CodecBuffers ==
    {serialize(e).out : e \in CodecEnvelopes}
    \* trailing bytes after a whole message
    \cup {serialize(e).out \o <<9, 9>> : e \in {Alive(Key(7)), UserInfo(Pattern(2, 1))}}
    \* buffers that end early
    \cup {<<>>, <<PAYLOAD_ID_ALIVE>>, <<PAYLOAD_ID_USER_INFO>>, <<PAYLOAD_ID_USER_INFO, 0>>,
          <<PAYLOAD_ID_ALIVE>> \o Pattern(PUBKEY_BYTES - 1, 1),
          Handmade(3, <<5, 6>>)}
    \* other tags
    \cup {<<t>> \o b : t \in {2, 3, 128, 255},
                       b \in {<<>>, Key(7), u16_to_be_bytes(2) \o <<5, 6>>}}
    \* declared lengths above the limit, with and without the bytes behind them
    \cup {Handmade(n, b) :
             n \in ((BRIDGE_MESSAGE_MAX_LENGTH + 1)..(BRIDGE_MESSAGE_MAX_LENGTH + CodecSlack))
                   \cup {MESSAGE_MAX_LENGTH, U16_MAX},
             b \in {<<>>, Pattern(BRIDGE_MESSAGE_MAX_LENGTH + CodecSlack, 1),
                    Pattern(MESSAGE_MAX_LENGTH, 7)}}
    \* the largest declared length within the limit
    \cup {Handmade(BRIDGE_MESSAGE_MAX_LENGTH, Pattern(BRIDGE_MESSAGE_MAX_LENGTH, 7))}

OtherVars == <<state, user_info, foreign_emitter, received, last, nops, naborted,
               nReceived, nClaimed, epoch, tx>>

Serialize(msg) ==
    /\ codec' = [op |-> "serialize", msg |-> msg, enc |-> serialize(msg)]
    /\ UNCHANGED OtherVars

Deserialize(buf) ==
    /\ codec' = [op |-> "deserialize", buf |-> buf, dec |-> deserialize_reader(buf)]
    /\ UNCHANGED OtherVars

\* serialize into a buffer, then deserialize the buffer
RoundTrip(msg) ==
    /\ codec' = [op |-> "roundtrip", msg |-> msg, enc |-> serialize(msg),
                 dec |-> deserialize_reader(serialize(msg).out)]
    /\ UNCHANGED OtherVars

NextCodec ==
    \/ \E msg \in CodecEnvelopes : Serialize(msg)
    \/ \E buf \in CodecBuffers : Deserialize(buf)
    \/ \E msg \in CodecEnvelopes : RoundTrip(msg)

SpecCodec == Init /\ [][NextCodec]_vars

(***************************************************************************)
(* Properties.                                                             *)
(***************************************************************************)
\* the last instruction was a claim_token whose handler ran
Claimed == last.op = "claim_token" /\ last.res # "AccountNotInitialized"
\* the last instruction was a receive_message whose posted message loaded
Received == last.op = "receive_message" /\ last.res # "AccountDidNotDeserialize"
\* the BridgeMessage the last receive_message was given
ReceivedData == deserialize_reader(last.args.buf).msg

\* C1: no double payout.  A claim that succeeds leaves the stored amount 0;
\* a claim on a record whose amount is 0 fails and invokes no transfer, with
\* InvalidAmount when the claimant is the stored recipient (a claim for
\* another account fails with InvalidUser before the amount is looked at);
\* and the successful claims on a record never outnumber the successful
\* receive_message instructions on it.
C1_NoDoublePayout ==
    [][\A a \in UserInfoAccts :
          /\ nClaimed'[a] <= nReceived'[a]
          /\ (Claimed' /\ last'.acct = a) =>
                /\ last'.res = "Ok" => user_info'[a].amount = 0
                /\ user_info[a].amount = 0 =>
                      /\ last'.res # "Ok"
                      /\ last'.cpi = <<>>
                      /\ nClaimed'[a] = nClaimed[a]
                      /\ last'.args.user = user_info[a].user
                            => last'.res = "InvalidAmount"]_vars

\* a second claim by the recipient, after one that succeeded, was refused
\* with InvalidAmount
C1_Witness ==
    /\ Claimed
    /\ last.res = "InvalidAmount"
    /\ last.cpi = <<>>
    /\ nClaimed[last.acct] = 1
    /\ nReceived[last.acct] = 1
    /\ epoch[last.acct].amount # 0

\* C2: claim is all-or-nothing.  When the token program refuses the transfer
\* that a claim invokes, the claim fails and the stored entitlement is what
\* it was before the claim; and the same claim, made again with a transfer
\* the token program carries out, succeeds and transfers the stored amount.
C2_AllOrNothing ==
    [][\A a \in UserInfoAccts :
          /\ (Claimed' /\ last'.acct = a /\ last'.cpi # <<>> /\ ~last'.args.cpi_ok) =>
                /\ last'.res = "TransferFailed"
                /\ user_info'[a] = user_info[a]
                /\ user_info'[a].amount # 0
                /\ nClaimed'[a] = nClaimed[a]
          /\ ( /\ Claimed /\ last.acct = a /\ last.res = "TransferFailed"
               /\ Claimed' /\ last'.acct = a
               /\ last'.args = [last.args EXCEPT !.cpi_ok = TRUE] ) =>
                /\ last'.res = "Ok"
                /\ last'.cpi[1].amount = user_info[a].amount]_vars

\* a claim failed because the transfer was refused, and the entitlement is
\* still pending
C2_Witness ==
    /\ Claimed
    /\ last.res = "TransferFailed"
    /\ ~last.args.cpi_ok
    /\ user_info[last.acct].amount = epoch[last.acct].amount
    /\ user_info[last.acct].amount # 0

\* C3: claim authorization.  A claim for an account other than the stored
\* recipient fails with InvalidUser; a claim by the stored recipient of a
\* pending entitlement with an authority other than State.owner fails with
\* InvalidOwner; and every claim with a wrong recipient or a wrong authority
\* fails, leaves the stored recipient and amount alone and invokes no
\* transfer.
C3_Authorization ==
    [][\A a \in UserInfoAccts :
          (Claimed' /\ last'.acct = a) =>
             /\ last'.args.user # user_info[a].user => last'.res = "InvalidUser"
             /\ ( /\ last'.args.user = user_info[a].user
                  /\ user_info[a].amount # 0
                  /\ last'.args.owner # state.owner ) => last'.res = "InvalidOwner"
             /\ (last'.args.user # user_info[a].user \/ last'.args.owner # state.owner) =>
                   /\ last'.res \in {"InvalidUser", "InvalidAmount", "InvalidOwner"}
                   /\ user_info'[a] = user_info[a]
                   /\ last'.cpi = <<>>]_vars

\* a claim on a pending entitlement by its recipient was refused for its
\* authority
C3_Witness ==
    /\ Claimed
    /\ last.res = "InvalidOwner"
    /\ last.args.user = user_info[last.acct].user
    /\ last.args.owner # state.owner
    /\ user_info[last.acct].amount # 0

\* C4: every successful claim invokes exactly one transfer, from the
\* configured owner to the stored recipient, of the amount stored just before
\* the claim, which is not 0.
C4_OneTransfer ==
    [][\A a \in UserInfoAccts :
          (Claimed' /\ last'.acct = a /\ last'.res = "Ok") =>
             /\ Len(last'.cpi) = 1
             /\ last'.cpi[1].from = state.owner
             /\ last'.cpi[1].authority = state.owner
             /\ last'.cpi[1].to = user_info[a].user
             /\ last'.cpi[1].amount = user_info[a].amount
             /\ last'.cpi[1].amount # 0
             /\ last'.cpi[1].amount # user_info'[a].amount]_vars

\* a claim succeeded and transferred the amount the message had stored
C4_Witness ==
    /\ Claimed
    /\ last.res = "Ok"
    /\ Len(last.cpi) = 1
    /\ last.cpi[1].amount = epoch[last.acct].amount
    /\ last.cpi[1].amount = 256
    /\ user_info[last.acct].amount = 0

\* C5: claims on one record are executed one after the other.  Of the claims
\* made on a pending entitlement by its recipient, with the owner as
\* authority and a transfer the token program carries out, the first succeeds
\* and every other fails with InvalidAmount; and whatever the claims, at most
\* one succeeds between two receive_message instructions on the record.
C5_OneOfTwoClaims ==
    \A a \in UserInfoAccts :
       LET claims == epoch[a].claims
       IN  /\ epoch[a].amount # 0 =>
                \A i \in 1..Len(claims) :
                   claims[i] = IF i = 1 THEN "Ok" ELSE "InvalidAmount"
           /\ Cardinality({i \in 1..Len(claims) : claims[i] = "Ok"}) <= 1

\* two claims were made on a pending entitlement: one succeeded, the other
\* failed with InvalidAmount
C5_Witness ==
    \E a \in UserInfoAccts :
       /\ epoch[a].amount # 0
       /\ epoch[a].claims = <<"Ok", "InvalidAmount">>

\* C6: the entitlement decoder succeeds exactly on the payloads of 40 bytes,
\* and a payload of 40 bytes decodes to recipient = bytes [0,32) and amount =
\* the little-endian value of bytes [32,40).
C6_DecodeExactly40 ==
    (Received /\ ReceivedData.kind = "UserInfo") =>
       LET payload == ReceivedData.message
           decoded == UserState_decode(payload)
       IN  /\ decoded.res = "Ok" <=> Len(payload) = 40
           /\ Len(payload) = 40 =>
                 /\ decoded.value.user = SubSeq(payload, 1, 32)
                 /\ decoded.value.amount = from_le_bytes(SubSeq(payload, 33, 40))

\* C7: end to end.  A receive_message given UserInfo with the 40 bytes
\* recipient(R) || amount(A), A not 0, succeeds and stores {R, A}; a claim
\* that follows it, for R with the owner as authority and a transfer the
\* token program carries out, succeeds, transfers A and leaves the amount 0.
C7_EndToEnd ==
    [][\A a \in UserInfoAccts, k \in Keys, amt \in Amounts \ {0} :
          /\ ( /\ Received' /\ last'.acct = a
               /\ ReceivedData' = UserInfo(EntitlementBytes(k, amt)) ) =>
                /\ last'.res = "Ok"
                /\ user_info'[a].user = k
                /\ user_info'[a].amount = amt
          /\ ( /\ Received /\ last.acct = a /\ last.res = "Ok"
               /\ ReceivedData = UserInfo(EntitlementBytes(k, amt))
               /\ state.exists
               /\ Claimed' /\ last'.acct = a
               /\ last'.args = [user |-> k, owner |-> state.owner, cpi_ok |-> TRUE] ) =>
                /\ last'.res = "Ok"
                /\ last'.cpi = <<Transfer(state.owner, k, state.owner, amt)>>
                /\ user_info'[a].amount = 0]_vars

\* C8: a receive_message given an envelope that is not UserInfo fails with
\* InvalidMessage and changes neither the Received account nor a UserState
\* account.
C8_NotUserInfo ==
    [][(Received' /\ ReceivedData'.kind # "UserInfo") =>
          /\ last'.res = "InvalidMessage"
          /\ received' = received
          /\ user_info' = user_info
          /\ nReceived' = nReceived]_vars

\* an Alive envelope was refused while an entitlement was pending
C8_Witness ==
    /\ Received
    /\ ReceivedData.kind = "Alive"
    /\ last.res = "InvalidMessage"
    /\ user_info[last.acct].amount # 0
    /\ received.message # <<>>

\* C9: a receive_message given a UserInfo envelope whose payload the
\* entitlement decoder does not decode fails with InvalidMessage and changes
\* neither the Received account nor the UserState account.
C9_UndecodablePayload ==
    [][(/\ Received'
        /\ ReceivedData'.kind = "UserInfo"
        /\ UserState_decode(ReceivedData'.message).res # "Ok") =>
          /\ last'.res = "InvalidMessage"
          /\ received' = received
          /\ user_info' = user_info]_vars

\* C10: only receive_message raises a stored amount: a step that raises the
\* amount of a UserState account, from 0 or from any other value, is a
\* receive_message that succeeded on that account.
C10_OnlyReceiveRaises ==
    [][\A a \in UserInfoAccts :
          user_info'[a].amount > user_info[a].amount =>
             /\ last'.op = "receive_message"
             /\ last'.res = "Ok"
             /\ last'.acct = a
             /\ nReceived'[a] = nReceived[a] + 1]_vars

\* initialize, register_emitter and claims that succeeded and that failed
\* have all run, and the amount stored is the one a message carried
C10_Witness ==
    /\ state.exists
    /\ foreign_emitter.chain # 0
    /\ nClaimed[1] = 1
    /\ naborted = 1
    /\ Claimed
    /\ user_info[1].amount = 0
    /\ epoch[1].amount = 250

\* C11: last write wins.  After a receive_message that succeeded the stored
\* entitlement is the recipient and the amount the decoder read from that
\* message (bytes [0,32) and the little-endian value of bytes [32,40)),
\* whatever was stored before: a pending amount is replaced, by 0 too, and
\* never added to.
C11_LastWriteWins ==
    [][\A a \in UserInfoAccts :
          (Received' /\ last'.acct = a /\ last'.res = "Ok") =>
             LET payload == ReceivedData'.message
                 decoded == UserState_decode(payload)
             IN  /\ decoded.res = "Ok"
                 /\ user_info'[a].user = decoded.value.user
                 /\ user_info'[a].amount = decoded.value.amount
                 /\ user_info'[a].user = SubSeq(payload, 1, 32)
                 /\ user_info'[a].amount = from_le_bytes(SubSeq(payload, 33, 40))]_vars

\* a second message arrived while 250 was pending and unclaimed, and the
\* amount stored is the 256 it carried
C11_Witness ==
    \E a \in UserInfoAccts :
       /\ Received /\ last.acct = a /\ last.res = "Ok"
       /\ nReceived[a] = 2
       /\ nClaimed[a] = 0
       /\ epoch[a].replaced = 250
       /\ user_info[a].amount = 256

\* C12: register_emitter(chain, address) fails with InvalidForeignEmitter and
\* leaves the emitter record alone when chain is 0, chain is this chain's own
\* id or address is all zero; otherwise it succeeds and the record is (chain,
\* address), whatever was registered before.  So a record that was written
\* has a chain that is neither 0 nor this chain's and an address that is not
\* all zero.
C12_RegisterEmitter ==
    [][/\ last'.op = "register_emitter" =>
             LET chain == last'.args.chain
                 address == last'.args.address
             IN  IF chain = 0 \/ chain = CHAIN_ID_SOLANA \/ address = ZeroKey
                 THEN /\ last'.res = "InvalidForeignEmitter"
                      /\ foreign_emitter' = foreign_emitter
                 ELSE /\ last'.res = "Ok"
                      /\ foreign_emitter' = [chain |-> chain, address |-> address]
       /\ foreign_emitter' # foreign_emitter =>
             /\ last'.op = "register_emitter"
             /\ foreign_emitter'.chain \notin {0, CHAIN_ID_SOLANA}
             /\ \E i \in 1..32 : foreign_emitter'.address[i] # 0]_vars

\* a registration for this chain's own id was refused and the emitter
\* registered before it, whose address has a single nonzero byte, is still
\* on record
C12_Witness ==
    /\ last.op = "register_emitter"
    /\ last.res = "InvalidForeignEmitter"
    /\ last.args.chain = CHAIN_ID_SOLANA
    /\ last.args.address # ZeroKey
    /\ foreign_emitter = [chain |-> 2, address |-> <<1>> \o Replicate(31, 0)]


\* C13: serializing a valid message (Alive with a 32-byte program id, or
\* UserInfo with a payload of 0..512 bytes) and deserializing the bytes gives
\* the message back with nothing left over, and the bytes are the tag 0 and
\* the 32 id bytes, or the tag 1, the length as two bytes high byte first, and
\* the payload.
C13_RoundTrip ==
    codec.op = "roundtrip" =>
       LET e == codec.msg
           valid == IF e.kind = "Alive" THEN Len(e.program_id) = 32
                    ELSE Len(e.message) <= 512
       IN  valid =>
              /\ codec.enc.res = "Ok"
              /\ codec.dec.res = "Ok"
              /\ codec.dec.msg = e
              /\ codec.dec.rest = <<>>
              /\ IF e.kind = "Alive"
                 THEN codec.enc.out = <<0>> \o e.program_id
                 ELSE codec.enc.out =
                         <<1, Len(e.message) \div 256, Len(e.message) % 256>>
                         \o e.message

\* C13 witness: a UserInfo message of 512 bytes that are not all alike has
\* made the round trip.
C13_Witness ==
    /\ codec.op = "roundtrip"
    /\ codec.msg.kind = "UserInfo"
    /\ Len(codec.msg.message) = 512
    /\ codec.msg.message[1] # codec.msg.message[2]
    /\ codec.dec.res = "Ok"

\* C14: serializing a UserInfo message succeeds when the payload has at most
\* 512 bytes, and fails with the too-large error, nothing written, when it
\* has more.
C14_EncodeBoundary ==
    (codec.op \in {"serialize", "roundtrip"} /\ codec.msg.kind = "UserInfo") =>
       IF Len(codec.msg.message) <= 512
       THEN codec.enc.res = "Ok"
       ELSE /\ codec.enc.res = "InvalidInput"
            /\ codec.enc.out = <<>>

\* C14 witness: a payload of 513 bytes has been refused.
C14_Witness ==
    /\ codec.op = "serialize"
    /\ codec.msg.kind = "UserInfo"
    /\ Len(codec.msg.message) = 513
    /\ codec.enc.res = "InvalidInput"

\* C15: deserializing a buffer that starts with the tag 1 and a declared
\* length above 512 fails with the too-large error whatever follows, and no
\* deserialization gives a UserInfo message with more than 512 payload bytes.
C15_DecodeBoundary ==
    codec.op = "deserialize" =>
       /\ (/\ Len(codec.buf) >= 3
           /\ codec.buf[1] = 1
           /\ codec.buf[2] * 256 + codec.buf[3] > 512) =>
             /\ codec.dec.res = "InvalidInput"
             /\ codec.dec.text = "message exceeds 512 bytes"
       /\ (codec.dec.res = "Ok" /\ codec.dec.msg.kind = "UserInfo") =>
             Len(codec.dec.msg.message) <= 512

\* C15 witness: a buffer declaring 513 bytes, with the 513 bytes behind the
\* length, has been refused.
C15_Witness ==
    /\ codec.op = "deserialize"
    /\ Len(codec.buf) >= 3 + 513
    /\ codec.buf[1] = 1
    /\ codec.buf[2] * 256 + codec.buf[3] = 513
    /\ codec.dec.res = "InvalidInput"

\* C16: deserializing a buffer whose first byte is neither 0 nor 1 fails with
\* the invalid-tag error and gives no message; a deserialization that gives a
\* message gives Alive exactly when the first byte is 0 and UserInfo exactly
\* when it is 1.
C16_TagDecides ==
    (codec.op = "deserialize" /\ Len(codec.buf) >= 1) =>
       /\ codec.buf[1] \notin {0, 1} =>
             /\ codec.dec.res = "InvalidInput"
             /\ codec.dec.text = "invalid payload ID"
       /\ codec.dec.res = "Ok" =>
             /\ codec.buf[1] = 0 <=> codec.dec.msg.kind = "Alive"
             /\ codec.buf[1] = 1 <=> codec.dec.msg.kind = "UserInfo"

\* C16 witness: a buffer with the tag 2 and 32 more bytes has been refused.
C16_Witness ==
    /\ codec.op = "deserialize"
    /\ Len(codec.buf) = 33
    /\ codec.buf[1] = 2
    /\ codec.dec.res = "InvalidInput"


C18_CheckOrder ==
    [][(Claimed' /\ last'.res # "AccountNotInitialized") =>
          LET ui == user_info[last'.acct]
              user == last'.args.user
              owner == last'.args.owner
          IN  /\ ui.user # user => last'.res = "InvalidUser"
              /\ (ui.user = user /\ ui.amount = 0) => last'.res = "InvalidAmount"
              /\ last'.res = "InvalidOwner" =>
                    /\ ui.user = user
                    /\ ui.amount # 0
                    /\ state.owner # owner
              /\ (ui.user = user /\ ui.amount # 0 /\ state.owner # owner) =>
                    last'.res = "InvalidOwner"]_vars

\* C18 witness: a claim for another user, of a record whose amount is 0,
\* with an authority that is not the owner, has failed with InvalidUser.
C18_Witness ==
    /\ Claimed
    /\ last.res = "InvalidUser"
    /\ user_info[last.acct].exists
    /\ user_info[last.acct].amount = 0
    /\ nReceived[last.acct] > 0
    /\ state.exists
    /\ state.owner # last.args.owner


\* C19: state.owner is written by initialize alone, and once: a step that
\* changes the State account is an initialize that returned Ok on an account
\* that did not exist, and stores the owner it was given; from then on
\* no register_emitter, receive_message, claim_token or further initialize,
\* returning Ok or not, changes the owner.
C19_OwnerWrittenOnce ==
    [][/\ state' # state =>
             /\ last'.op = "initialize"
             /\ last'.res = "Ok"
             /\ ~state.exists
             /\ state' = [exists |-> TRUE, owner |-> last'.args.owner]
       /\ state.exists => state' = state
       /\ last'.op \in {"register_emitter", "receive_message", "claim_token"} =>
             state' = state]_vars

\* C19 witness: after an initialize that stored one owner, a receive_message
\* and a claim_token have returned Ok, another initialize naming another
\* owner has failed, and the owner is the one first stored.
C19_Witness ==
    /\ state.exists
    /\ last.op = "initialize"
    /\ last.res = "AccountAlreadyInUse"
    /\ last.args.owner # state.owner
    /\ \E a \in UserInfoAccts : nReceived[a] > 0 /\ nClaimed[a] > 0


\* C20: the message stored in the Received account never has more than 512
\* bytes: a UserInfo message that reaches receive_message has at most 512
\* bytes, so it is never refused with InvalidMessage, the error of the check
\* against the 1024 bytes of storage, and what a receive_message that
\* returns Ok stores is that message.
C20_StoredWithinWireLimit ==
    /\ Len(received.message) <= 512
    /\ Len(received.message) <= 1024
    /\ (Received /\ ReceivedData.kind = "UserInfo") =>
          /\ Len(ReceivedData.message) <= 512
          /\ last.res # "InvalidMessage"
    /\ (Received /\ last.res = "Ok") => received.message = ReceivedData.message

\* C20 witness: a receive_message has stored a message of 512 bytes.
C20_Witness ==
    /\ Received
    /\ last.res = "Ok"
    /\ Len(received.message) = 512
    /\ received.message = ReceivedData.message

====
